---- MODULE Spec2Model ----
(***************************************************************************)
(* README-AI: the extension-dispatching FileHandler (src/src/factory.py)   *)
(* and the utilities flatten_list and clone_repository (src/src/utils.py).  *)
(*                                                                         *)
(* Strings that the code takes apart (file paths, split on ".") are         *)
(* sequences of one-character strings.  Python values are records          *)
(* [t, v, items]: t is the type tag, v the text of a scalar, items the      *)
(* ordered (key, value) pairs of a dict.  An integer is carried by its      *)
(* decimal text, so that str(1) = "1" is the text itself.                   *)
(***************************************************************************)
EXTENDS Naturals, Sequences, FiniteSets, TLC

VARIABLES
    fs,           \* the file system: path -> text of the file (or NoFile)
    cache,        \* FileHandler.cache: a dict path -> content
    last,         \* the last call on the handler and what came back
    returned,     \* history: path -> the value the first successful read gave
    failed,       \* history: the paths a read of which has raised
    rt,           \* one write-then-read through a format's writer and reader
    fl,           \* one call of flatten_list: its argument and its result
    cl            \* clone_repository: the destination paths and the last call

vars == <<fs, cache, last, returned, failed, rt, fl, cl>>

-----------------------------------------------------------------------------
(* Python values *)

Str(s) == [t |-> "str", v |-> s, items |-> <<>>]
Int(s) == [t |-> "int", v |-> s, items |-> <<>>]
None == [t |-> "none", v |-> "", items |-> <<>>]
Dict(items) == [t |-> "dict", v |-> "", items |-> items]
StrKey(s) == [t |-> "str", v |-> s]
IntKey(s) == [t |-> "int", v |-> s]
Item(k, val) == [k |-> k, val |-> val]

Keys(items) == {items[i].k : i \in DOMAIN items}

Lookup(items, k) == items[CHOOSE i \in DOMAIN items : items[i].k = k].val

\* A Python dict built by inserting the pairs in order: a repeated key keeps
\* the place of its first insertion and the value of its last.
RECURSIVE dict_of(_)
dict_of(pairs) ==
    IF pairs = <<>> THEN <<>>
    ELSE LET init == dict_of(SubSeq(pairs, 1, Len(pairs) - 1))
             new == pairs[Len(pairs)]
         IN  IF new.k \in Keys(init)
             THEN [i \in DOMAIN init |->
                      IF init[i].k = new.k THEN new ELSE init[i]]
             ELSE Append(init, new)

\* Python's == on values: dicts are equal when they hold the same keys with
\* equal values, whatever the insertion order.
RECURSIVE ValEq(_, _)
ValEq(a, b) ==
    IF a.t = "dict" /\ b.t = "dict"
    THEN /\ Keys(a.items) = Keys(b.items)
         /\ \A k \in Keys(a.items) :
                ValEq(Lookup(a.items, k), Lookup(b.items, k))
    ELSE a = b

\* str.lower on the characters the model uses.
LowerTable ==
    ("A" :> "a") @@ ("B" :> "b") @@ ("K" :> "k") @@ ("J" :> "j") @@
    ("S" :> "s") @@ ("O" :> "o") @@ ("N" :> "n") @@ ("M" :> "m") @@
    ("D" :> "d")

lower(c) == IF c \in DOMAIN LowerTable THEN LowerTable[c] ELSE c

\* The code-point order of the one-character strings used as dict keys.
Alphabet == <<"1", "2", "A", "B", "K", "a", "b", "k">>

Ord(c) == CHOOSE i \in DOMAIN Alphabet : Alphabet[i] = c

-----------------------------------------------------------------------------
(* Errors and results *)

Err(kind, msg) == [kind |-> kind, msg |-> msg]
NoErr == Err("", "")
Ok(value) == [ok |-> TRUE, value |-> value, err |-> NoErr]
Raise(e) == [ok |-> FALSE, value |-> None, err |-> e]

-----------------------------------------------------------------------------
(* The text of a file: the serialisation of a value in one format.          *)

Text(fmt, body) == [fmt |-> fmt, body |-> body]
NoFile == Text("absent", None)
EmptyText == Text("empty", None)
CorruptText == Text("corrupt", None)          \* bytes that are not UTF-8

\* open(file_path, encoding="utf-8") followed by a read of the whole text.
open_read(file) ==
    CASE file.fmt = "absent" ->
             Raise(Err("FileNotFoundError", "No such file or directory"))
      [] file.fmt = "corrupt" ->
             Raise(Err("UnicodeDecodeError", "invalid start byte"))
      [] OTHER -> Ok(file)

-----------------------------------------------------------------------------
(* json.dump / json.load *)

\* A dict key as JSON writes it: always a string, an int by its decimal text.
json_key(k) == StrKey(k.v)

RECURSIVE json_dumps(_)
json_dumps(o) ==
    IF o.t = "dict"
    THEN Dict([i \in DOMAIN o.items |->
                  Item(json_key(o.items[i].k), json_dumps(o.items[i].val))])
    ELSE o

\* An object's members are inserted into a dict in document order.
RECURSIVE json_loads(_)
json_loads(doc) ==
    IF doc.t = "dict"
    THEN Dict(dict_of([i \in DOMAIN doc.items |->
                  Item(doc.items[i].k, json_loads(doc.items[i].val))]))
    ELSE doc

-----------------------------------------------------------------------------
(* toml.dump / toml.load *)

\* toml's encoder looks every key up again by its str() form, so a dict with
\* a key that is not a string cannot be dumped (KeyError).
RECURSIVE toml_keys_ok(_)
toml_keys_ok(o) ==
    \A i \in DOMAIN o.items :
        /\ o.items[i].k.t = "str"
        /\ o.items[i].val.t = "dict" => toml_keys_ok(o.items[i].val)

\* A table's plain values are written first, its sub-tables after them.
RECURSIVE toml_dumps(_)
toml_dumps(o) ==
    LET plain == SelectSeq(o.items, LAMBDA it : it.val.t # "dict")
        tables == SelectSeq(o.items, LAMBDA it : it.val.t = "dict")
    IN  Dict(plain \o [i \in DOMAIN tables |->
                          Item(tables[i].k, toml_dumps(tables[i].val))])

RECURSIVE toml_loads(_)
toml_loads(doc) ==
    IF doc.t = "dict"
    THEN Dict(dict_of([i \in DOMAIN doc.items |->
                  Item(doc.items[i].k, toml_loads(doc.items[i].val))]))
    ELSE doc

-----------------------------------------------------------------------------
(* yaml.safe_dump / yaml.safe_load *)

SameKeyType(items) == \A i, j \in DOMAIN items : items[i].k.t = items[j].k.t

\* safe_dump writes a mapping's entries sorted by key; keys that Python
\* cannot compare (an int with a str) leave the insertion order.
RECURSIVE yaml_dumps(_)
yaml_dumps(o) ==
    IF o.t = "dict"
    THEN LET enc == [i \in DOMAIN o.items |->
                        Item(o.items[i].k, yaml_dumps(o.items[i].val))]
         IN  Dict(IF SameKeyType(enc)
                  THEN SortSeq(enc, LAMBDA x, y : Ord(x.k.v) < Ord(y.k.v))
                  ELSE enc)
    ELSE o

RECURSIVE yaml_loads(_)
yaml_loads(doc) ==
    IF doc.t = "dict"
    THEN Dict(dict_of([i \in DOMAIN doc.items |->
                  Item(doc.items[i].k, yaml_loads(doc.items[i].val))]))
    ELSE doc

-----------------------------------------------------------------------------
(* The static readers: the argument is the file found at file_path.         *)

read_markdown(file) ==
    LET o == open_read(file)
    IN  IF ~o.ok THEN o
        ELSE CASE file.fmt = "empty" -> Ok(Str(""))
               [] file.fmt = "raw" -> Ok(file.body)

toml_lower_skipped(data) == data

\* {key.lower(): value for key, value in data.items()}
toml_lower(data) ==
    Dict(dict_of([i \in DOMAIN data.items |->
             Item(StrKey(lower(data.items[i].k.v)), data.items[i].val)]))

read_toml(file) ==
    LET o == open_read(file)
    IN  IF ~o.ok THEN o
        ELSE CASE file.fmt = "empty" -> Ok(toml_lower(Dict(<<>>)))
               [] file.fmt = "toml" -> Ok(toml_lower(toml_loads(file.body)))

read_json(file) ==
    LET o == open_read(file)
    IN  IF ~o.ok THEN o
        ELSE CASE file.fmt = "empty" ->
                      Raise(Err("JSONDecodeError", "Expecting value"))
               [] file.fmt = "json" -> Ok(json_loads(file.body))

read_yaml(file) ==
    LET o == open_read(file)
    IN  IF ~o.ok THEN o
        ELSE CASE file.fmt = "empty" -> Ok(None)
               [] file.fmt = "yaml" -> Ok(yaml_loads(file.body))

-----------------------------------------------------------------------------
(* The static writers: open(file_path, "w") creates or truncates the file,  *)
(* then the content is serialised into it.  The result is the error raised  *)
(* (NoErr if none) and the file left behind.                                 *)

Written(file) == [err |-> NoErr, file |-> file]
Failed(e) == [err |-> e, file |-> EmptyText]

write_markdown(content) ==
    IF content.t = "str"
    THEN Written(IF content.v = "" THEN EmptyText ELSE Text("raw", content))
    ELSE Failed(Err("TypeError", "write() argument must be str"))

write_toml(content) ==
    IF content.t # "dict"
    THEN Failed(Err("TypeError", "string indices must be integers"))
    ELSE IF ~toml_keys_ok(content)
    THEN Failed(Err("KeyError", "key"))
    ELSE Written(Text("toml", toml_dumps(content)))

write_json(content) == Written(Text("json", json_dumps(content)))

write_yaml(content) == Written(Text("yaml", yaml_dumps(content)))

-----------------------------------------------------------------------------
(* FileHandler *)

\* The paths the handler is called with.
P_json == <<"c", ".", "j", "s", "o", "n">>
P_JSON == <<"c", ".", "J", "S", "O", "N">>
P_toml == <<"a", ".", "b", ".", "t", "o", "m", "l">>
P_xyz == <<"f", ".", "x", "y", "z">>

Paths == {P_json, P_JSON, P_toml, P_xyz}

\* The contents the handler is asked to write.
Contents == {Str("x"), Dict(<<Item(StrKey("A"), Int("1"))>>)}

\* self.file_actions, built in __init__ and never assigned again.
file_actions ==
    (<<"m", "d">> :> [read |-> "read_markdown", write |-> "write_markdown"]) @@
    (<<"t", "o", "m", "l">> :> [read |-> "read_toml", write |-> "write_toml"]) @@
    (<<"j", "s", "o", "n">> :> [read |-> "read_json", write |-> "write_json"]) @@
    (<<"y", "a", "m", "l">> :> [read |-> "read_yaml", write |-> "write_yaml"])

ActionTypes == {"read", "delete"}

\* str(file_path).split(".")[-1]: what follows the last ".", the whole path
\* when it holds none.
LastDot(p) ==
    IF \E i \in DOMAIN p : p[i] = "."
    THEN CHOOSE i \in DOMAIN p :
             p[i] = "." /\ \A j \in DOMAIN p : j > i => p[j] # "."
    ELSE 0

file_extension_lowered(file_path) ==
    LET e == SubSeq(file_path, LastDot(file_path) + 1, Len(file_path))
    IN  [i \in DOMAIN e |-> lower(e[i])]

file_extension(file_path) ==
    SubSeq(file_path, LastDot(file_path) + 1, Len(file_path))

Fn(name) == [ok |-> TRUE, fn |-> name, err |-> NoErr]
NoFn(e) == [ok |-> FALSE, fn |-> "", err |-> e]

get_action(ext, action_type) ==
    IF ext \notin DOMAIN file_actions
    THEN NoFn(Err("ValueError", "Unsupported file type"))
    ELSE IF action_type \notin DOMAIN file_actions[ext]
    THEN NoFn(Err("ValueError", "Unsupported action type"))
    ELSE Fn(file_actions[ext][action_type])

\* reader(file_path)
call_reader(fn, file) ==
    CASE fn = "read_markdown" -> read_markdown(file)
      [] fn = "read_toml" -> read_toml(file)
      [] fn = "read_json" -> read_json(file)
      [] fn = "read_yaml" -> read_yaml(file)

\* writer(file_path, content)
call_writer(fn, content) ==
    CASE fn = "write_markdown" -> write_markdown(content)
      [] fn = "write_toml" -> write_toml(content)
      [] fn = "write_json" -> write_json(content)
      [] fn = "write_yaml" -> write_yaml(content)

ReadFileError_unwrapped(e) == e

\* raise ReadFileError(f"Failed to read file {file_path}: {e}")
ReadFileError(e) == Err("ReadFileError", e.msg)

WriteFileError_unwrapped(e) == e

\* raise WriteFileError(f"Failed to write file {file_path}: {e}")
WriteFileError(e) == Err("WriteFileError", e.msg)

\* A read that looks at the file every time and stores what it finds.
read_result_uncached(file_path) ==
    LET reader == get_action(file_extension(file_path), "read")
        content == call_reader(reader.fn, fs[file_path])
    IN  IF ~reader.ok
        THEN [ret |-> None, err |-> ReadFileError(reader.err),
              cache |-> cache, opened |-> FALSE]
        ELSE IF ~content.ok
        THEN [ret |-> None, err |-> ReadFileError(content.err),
              cache |-> cache, opened |-> TRUE]
        ELSE [ret |-> content.value, err |-> NoErr,
              cache |-> (file_path :> content.value) @@ cache,
              opened |-> TRUE]

\* A read that remembers a failure: the path gets a cache entry of None.
read_result_caching_errors(file_path) ==
    IF file_path \in DOMAIN cache
    THEN [ret |-> cache[file_path], err |-> NoErr, cache |-> cache,
          opened |-> FALSE]
    ELSE LET r == read_result_uncached(file_path)
         IN  IF r.err = NoErr THEN r
             ELSE [r EXCEPT !.cache = (file_path :> None) @@ cache]

\* FileHandler.read as a function of the state: what is returned or raised,
\* the cache afterwards, and whether the file was opened.
read_result(file_path) ==
    IF file_path \in DOMAIN cache
    THEN [ret |-> cache[file_path], err |-> NoErr, cache |-> cache,
          opened |-> FALSE]
    ELSE LET reader == get_action(file_extension(file_path), "read")
         IN  IF ~reader.ok
             THEN [ret |-> None, err |-> ReadFileError(reader.err),
                   cache |-> cache, opened |-> FALSE]
             ELSE LET content == call_reader(reader.fn, fs[file_path])
                  IN  IF ~content.ok
                      THEN [ret |-> None, err |-> ReadFileError(content.err),
                            cache |-> cache, opened |-> TRUE]
                      ELSE [ret |-> content.value, err |-> NoErr,
                            cache |-> (file_path :> content.value) @@ cache,
                            opened |-> TRUE]

\* A write that opens the file before it looks the writer up.
write_result_open_first(file_path, content) ==
    LET writer == get_action(file_extension(file_path), "write")
    IN  IF ~writer.ok
        THEN [err |-> WriteFileError(writer.err), file |-> EmptyText,
              opened |-> TRUE]
        ELSE LET w == call_writer(writer.fn, content)
             IN  [err |-> IF w.err = NoErr THEN NoErr ELSE WriteFileError(w.err),
                  file |-> w.file, opened |-> TRUE]

\* FileHandler.write as a function of the state: what is raised, the file
\* afterwards, and whether the file was opened.
write_result(file_path, content) ==
    LET writer == get_action(file_extension(file_path), "write")
    IN  IF ~writer.ok
        THEN [err |-> WriteFileError(writer.err), file |-> fs[file_path],
              opened |-> FALSE]
        ELSE LET w == call_writer(writer.fn, content)
             IN  [err |-> IF w.err = NoErr THEN NoErr ELSE WriteFileError(w.err),
                  file |-> w.file, opened |-> TRUE]

Call(op, path, content, ret, err, opened) ==
    [op |-> op, path |-> path, content |-> content, ret |-> ret, err |-> err,
     opened |-> opened]

read(file_path) ==
    LET r == read_result(file_path)
    IN  /\ cache' = r.cache
        /\ last' = Call("read", file_path, None, r.ret, r.err, r.opened)
        /\ returned' = IF r.err = NoErr /\ file_path \notin DOMAIN returned
                       THEN (file_path :> r.ret) @@ returned
                       ELSE returned
        /\ failed' = IF r.err = NoErr THEN failed ELSE failed \cup {file_path}
        /\ UNCHANGED fs

\* A write that drops the cache entry of the path it writes.
write_invalidating(file_path, content) ==
    LET w == write_result(file_path, content)
    IN  /\ fs' = [fs EXCEPT ![file_path] = w.file]
        /\ last' = Call("write", file_path, content, None, w.err, w.opened)
        /\ cache' = [q \in DOMAIN cache \ {file_path} |-> cache[q]]
        /\ UNCHANGED <<returned, failed>>

write(file_path, content) ==
    LET w == write_result(file_path, content)
    IN  /\ fs' = [fs EXCEPT ![file_path] = w.file]
        /\ last' = Call("write", file_path, content, None, w.err, w.opened)
        /\ UNCHANGED <<cache, returned, failed>>

\* get_action called by a client directly.
call_get_action(ext, action_type) ==
    LET a == get_action(ext, action_type)
    IN  /\ last' = Call("get_action", ext, Str(action_type), Str(a.fn), a.err,
                        FALSE)
        /\ UNCHANGED <<fs, cache, returned, failed>>

-----------------------------------------------------------------------------
(* The world outside the handler: a file is created, replaced or deleted.   *)

Supported(p) == file_extension(p) \in DOMAIN file_actions

\* The files present when the handler is constructed: one, of a type the
\* handler does not support.
InitialFiles == [p \in Paths |-> IF p = P_xyz THEN Text("raw", Str("x")) ELSE NoFile]

\* What another program may leave at a path the handler supports: nothing, an
\* empty file, bytes that do not decode, or what the path's own writer
\* produces.  The other paths are left as they were found.
FilesFor(p) ==
    IF Supported(p)
    THEN {NoFile, EmptyText, CorruptText} \cup
         {write_result(p, c).file : c \in Contents}
    ELSE {InitialFiles[p]}

change_file(p, file) ==
    /\ file # fs[p]
    /\ fs' = [fs EXCEPT ![p] = file]
    /\ last' = Call("change_file", p, None, None, NoErr, FALSE)
    /\ UNCHANGED <<cache, returned, failed>>

-----------------------------------------------------------------------------

\* The extensions get_action is asked about.
Extensions == DOMAIN file_actions \cup {file_extension(p) : p \in Paths}

Idle == [pc |-> "idle"]

Init ==
    /\ fs = InitialFiles
    /\ cache = <<>>
    /\ returned = <<>>
    /\ failed = {}
    /\ last = Call("init", <<>>, None, None, NoErr, FALSE)
    /\ rt = Idle
    /\ fl = Idle
    /\ cl = Idle

Next ==
    \/ \E p \in Paths : read(p) /\ UNCHANGED <<rt, fl, cl>>
    \/ \E p \in Paths, c \in Contents : write(p, c) /\ UNCHANGED <<rt, fl, cl>>
    \/ \E e \in Extensions, a \in ActionTypes :
           call_get_action(e, a) /\ UNCHANGED <<rt, fl, cl>>
    \/ \E p \in Paths : \E f \in FilesFor(p) :
           change_file(p, f) /\ UNCHANGED <<rt, fl, cl>>

Spec == Init /\ [][Next]_vars

-----------------------------------------------------------------------------
(* Properties of the FileHandler *)

\* What the path's own reader makes of the file now at a supported path.
Reading(p) == call_reader(file_actions[file_extension(p)].read, fs[p])

\* C1: once read(p) has returned a value, every later read(p) on the same
\* handler returns that value (and does not raise), whatever was written to
\* p or done to the file in between.
C1_ReadRepeats ==
    (last.op = "read" /\ last.path \in DOMAIN returned)
        => (last.err = NoErr /\ last.ret = returned[last.path])

\* A read answered from the cache although the file has since been deleted,
\* damaged, or given a text that reads as another value.
C1_Witness ==
    /\ last.op = "read"
    /\ last.path \in DOMAIN returned
    /\ ~last.opened
    /\ last.ret = returned[last.path]
    /\ (~Reading(last.path).ok \/ Reading(last.path).value # last.ret)

\* C2 as stated: a read or write of a path with an unsupported extension
\* reaches the caller as the generic ValueError.
C2_Original ==
    (last.op \in {"read", "write"} /\ ~Supported(last.path))
        => last.err.kind = "ValueError"

\* C2 amended: the caller of read gets a ReadFileError, the caller of write
\* a WriteFileError, each carrying the text "Unsupported file type"; only a
\* direct caller of get_action gets the ValueError.
C2_Wrapped ==
    /\ (last.op = "read" /\ ~Supported(last.path))
           => last.err = Err("ReadFileError", "Unsupported file type")
    /\ (last.op = "write" /\ ~Supported(last.path))
           => last.err = Err("WriteFileError", "Unsupported file type")
    /\ (last.op = "get_action" /\ last.path \notin DOMAIN file_actions)
           => last.err = Err("ValueError", "Unsupported file type")

C2_Witness ==
    /\ last.op = "read"
    /\ last.path = P_xyz
    /\ last.err.kind = "ReadFileError"

\* The texts of the underlying failures.
Causes ==
    {"Unsupported file type", "No such file or directory",
     "invalid start byte", "Expecting value", "write() argument must be str",
     "string indices must be integers", "key"}

\* C3: whatever makes read fail, the caller gets a ReadFileError, and
\* whatever makes write fail, a WriteFileError; the cause is the message.
C3_OneErrorKind ==
    /\ (last.op = "read" /\ last.err # NoErr)
           => (last.err.kind = "ReadFileError" /\ last.err.msg \in Causes)
    /\ (last.op = "write" /\ last.err # NoErr)
           => (last.err.kind = "WriteFileError" /\ last.err.msg \in Causes)

\* A write that failed while serialising, after the file was opened.
C3_Witness ==
    /\ last.op = "write"
    /\ last.opened
    /\ last.err = Err("WriteFileError", "string indices must be integers")

\* C5: a cache entry is never removed and never replaced.
C5_CacheOnlyGrows ==
    [][\A p \in DOMAIN cache : p \in DOMAIN cache' /\ cache'[p] = cache[p]]_vars

\* A successful write to a cached path of a content other than the cached one.
C5_Witness ==
    /\ last.op = "write"
    /\ last.err = NoErr
    /\ last.path \in DOMAIN cache
    /\ ~ValEq(cache[last.path], last.content)

\* C6: a read or write with an unsupported extension, and a lookup of an
\* unsupported action, fail with no file opened or changed and the cache as
\* it was.
C6_FailsBeforeIO ==
    [][/\ (last'.op \in {"read", "write"} /\ ~Supported(last'.path))
             => (last'.err # NoErr /\ ~last'.opened /\ fs' = fs /\ cache' = cache)
       /\ (last'.op = "get_action" /\ last'.err # NoErr)
             => (~last'.opened /\ fs' = fs /\ cache' = cache)]_vars

\* A refused write to a path where a file exists, which is still there.
C6_Witness ==
    /\ last.op = "write"
    /\ ~Supported(last.path)
    /\ last.err # NoErr
    /\ fs[last.path] = Text("raw", Str("x"))

\* path = stem "." ext, or path = ext: the extension compared as written.
EndsWithExt(p, e) ==
    /\ Len(p) >= Len(e)
    /\ SubSeq(p, Len(p) - Len(e) + 1, Len(p)) = e
    /\ Len(p) > Len(e) => p[Len(p) - Len(e)] = "."

LowerPath(p) == [i \in DOMAIN p |-> lower(p[i])]

Unsupported(c) == c.err.msg = "Unsupported file type"

\* C7 as stated: a path whose extension is a supported one in another letter
\* case is dispatched like its lowercase form, so it is not refused.
C7_Original ==
    (last.op \in {"read", "write"}
        /\ \E e \in DOMAIN file_actions : EndsWithExt(LowerPath(last.path), e))
        => ~Unsupported(last)

\* C7 amended: the extension is what follows the last "." exactly as
\* written; a path is refused as unsupported unless that is md, toml, json
\* or yaml in lower case.
C7_ExactCase ==
    (last.op \in {"read", "write"})
        => (Unsupported(last)
               <=> ~\E e \in DOMAIN file_actions : EndsWithExt(last.path, e))

C7_Witness ==
    /\ last.op = "read"
    /\ last.path = P_JSON
    /\ Unsupported(last)

\* C10: a read that raises leaves the cache as it was, with no entry for
\* the path; and the read of a path that has failed before and holds no
\* cache entry opens the file again and returns what it now reads.
C10_FailedReadNotCached ==
    [][/\ (last'.op = "read" /\ last'.err # NoErr)
             => (cache' = cache /\ last'.path \notin DOMAIN cache')
       /\ (last'.op = "read" /\ last'.path \in failed
               /\ last'.path \notin DOMAIN cache /\ Supported(last'.path)
               /\ Reading(last'.path).ok)
             => (last'.err = NoErr /\ last'.opened
                    /\ last'.ret = Reading(last'.path).value
                    /\ cache'[last'.path] = last'.ret)]_vars

\* A read that succeeded on a path whose earlier read had failed.
C10_Witness ==
    /\ last.op = "read"
    /\ last.err = NoErr
    /\ last.opened
    /\ last.path \in failed

-----------------------------------------------------------------------------
(* Writing a value with a format's writer and reading the file back with    *)
(* the same format's reader.                                                 *)

MaxItems == 2

MapKeys == {StrKey("a"), StrKey("A"), StrKey("b"), IntKey("1")}

MapValues == {Int("1"), Str("x"), Dict(<<Item(StrKey("K"), Int("2"))>>)}

\* The dicts of at most MaxItems entries, in every insertion order.
Mappings ==
    {Dict(items) : items \in
        {q \in UNION {[1..n -> [k : MapKeys, val : MapValues]] : n \in 0..MaxItems} :
            \A i, j \in DOMAIN q : i # j => q[i].k # q[j].k}}

Formats == {"md", "toml", "json", "yaml"}

\* The key of self.file_actions under which a format is registered.
ext_of(fmt) ==
    CASE fmt = "md" -> <<"m", "d">>
      [] fmt = "toml" -> <<"t", "o", "m", "l">>
      [] fmt = "json" -> <<"j", "s", "o", "n">>
      [] fmt = "yaml" -> <<"y", "a", "m", "l">>

writer_of(fmt) == file_actions[ext_of(fmt)].write

reader_of(fmt) == file_actions[ext_of(fmt)].read

FactoryIdle ==
    /\ fs = InitialFiles
    /\ cache = <<>>
    /\ returned = <<>>
    /\ failed = {}
    /\ last = Call("init", <<>>, None, None, NoErr, FALSE)

InitRoundTrip ==
    /\ FactoryIdle
    /\ rt \in [pc : {"start"}, fmt : Formats, m : Mappings \cup {Str("x")},
               file : {NoFile}, err : {NoErr}, back : {None}]
    /\ fl = Idle
    /\ cl = Idle

\* writer(file_path, m) on a path that holds no file
rt_write ==
    /\ rt.pc = "start"
    /\ LET w == call_writer(writer_of(rt.fmt), rt.m)
       IN  rt' = [rt EXCEPT !.pc = IF w.err = NoErr THEN "written" ELSE "failed",
                            !.file = w.file, !.err = w.err]

\* reader(file_path) on the file just written
rt_read ==
    /\ rt.pc = "written"
    /\ LET r == call_reader(reader_of(rt.fmt), rt.file)
       IN  rt' = [rt EXCEPT !.pc = IF r.ok THEN "read" ELSE "failed",
                            !.err = r.err, !.back = r.value]

NextRoundTrip ==
    \/ rt_write /\ UNCHANGED <<fs, cache, last, returned, failed, fl, cl>>
    \/ rt_read /\ UNCHANGED <<fs, cache, last, returned, failed, fl, cl>>

SpecRoundTrip == InitRoundTrip /\ [][NextRoundTrip]_vars

\* m with each top-level key replaced by its lowercase form.
LowerTop(m) ==
    Dict(dict_of([i \in DOMAIN m.items |->
             Item([m.items[i].k EXCEPT !.v = lower(@)], m.items[i].val)]))

RECURSIVE StrKeysOnly(_)
StrKeysOnly(m) ==
    \A i \in DOMAIN m.items :
        /\ m.items[i].k.t = "str"
        /\ m.items[i].val.t = "dict" => StrKeysOnly(m.items[i].val)

NoCaseClash(m) ==
    \A i, j \in DOMAIN m.items :
        i # j => lower(m.items[i].k.v) # lower(m.items[j].k.v)

\* C4 as stated: for every mapping, what is read back equals what was
\* written (JSON, YAML), or equals it with the top-level keys lowercased
\* (TOML, where lowercasing the keys of m makes no two of them one).
C4_Original ==
    (rt.pc = "read" /\ rt.m.t = "dict")
        => CASE rt.fmt \in {"json", "yaml"} -> ValEq(rt.back, rt.m)
             [] rt.fmt = "toml" ->
                    NoCaseClash(rt.m) => ValEq(rt.back, LowerTop(rt.m))
             [] OTHER -> TRUE

\* C4 amended: the same, for the mappings whose keys are all strings (JSON,
\* TOML) and, for TOML, of which no two top-level keys differ only in
\* letter case; for these the write and the read succeed.
C4_RoundTrip ==
    LET covered ==
            /\ rt.m.t = "dict"
            /\ rt.fmt \in {"json", "toml"} => StrKeysOnly(rt.m)
            /\ rt.fmt = "toml" => NoCaseClash(rt.m)
    IN  /\ (covered /\ rt.fmt \in {"json", "toml", "yaml"}) => rt.pc # "failed"
        /\ (covered /\ rt.pc = "read")
               => CASE rt.fmt \in {"json", "yaml"} -> ValEq(rt.back, rt.m)
                    [] rt.fmt = "toml" ->
                           /\ ValEq(rt.back, LowerTop(rt.m))
                           /\ \A i \in DOMAIN rt.m.items :
                                  ValEq(Lookup(rt.back.items,
                                               StrKey(lower(rt.m.items[i].k.v))),
                                        rt.m.items[i].val)
                    [] OTHER -> TRUE

\* A TOML round trip that lowercased a top-level key and kept the key "K"
\* of the nested table.
C4_Witness ==
    /\ rt.pc = "read"
    /\ rt.fmt = "toml"
    /\ StrKey("A") \in Keys(rt.m.items)
    /\ StrKey("A") \notin Keys(rt.back.items)
    /\ Lookup(rt.back.items, StrKey("a")) = Dict(<<Item(StrKey("K"), Int("2"))>>)

-----------------------------------------------------------------------------
(* flatten_list (src/src/utils.py).  An element of a nested list is a leaf  *)
(* (any value that is not a list) or a list of elements.                     *)

Leaf(n) == [leaf |-> TRUE, v |-> n, kids |-> <<>>]
List(kids) == [leaf |-> FALSE, v |-> 0, kids |-> kids]

\* result.append(flatten_list(item)) in place of result.extend(...)
RECURSIVE flatten_list_appending(_)
flatten_list_appending(nested_list) ==
    IF nested_list = <<>> THEN <<>>
    ELSE LET item == nested_list[Len(nested_list)]
             result == flatten_list_appending(
                           SubSeq(nested_list, 1, Len(nested_list) - 1))
         IN  IF ~item.leaf
             THEN Append(result, List(flatten_list_appending(item.kids)))
             ELSE Append(result, item)

\* The loop over nested_list, the result after its last item being the
\* result after the items before it, extended or appended to.
RECURSIVE flatten_list(_)
flatten_list(nested_list) ==
    IF nested_list = <<>> THEN <<>>
    ELSE LET item == nested_list[Len(nested_list)]
             result == flatten_list(SubSeq(nested_list, 1, Len(nested_list) - 1))
         IN  IF ~item.leaf
             THEN result \o flatten_list(item.kids)
             ELSE Append(result, item)

MaxNodes == 4

LeafValues == {1, 2}

\* The lists that hold n elements in all, counting those of their sublists.
RECURSIVE ListsOfSize(_)
ListsOfSize(n) ==
    IF n = 0 THEN {<<>>}
    ELSE UNION {
             {<<e>> \o rest :
                  e \in (IF k = 1 THEN {Leaf(v) : v \in LeafValues} ELSE {})
                        \cup {List(l) : l \in ListsOfSize(k - 1)},
                  rest \in ListsOfSize(n - k)} : k \in 1..n}

Example ==
    <<Leaf(1), List(<<Leaf(2), List(<<Leaf(3), Leaf(4)>>), Leaf(5)>>), Leaf(6)>>

NestedLists == UNION {ListsOfSize(n) : n \in 0..MaxNodes} \cup {Example}

InitFlatten ==
    /\ FactoryIdle
    /\ rt = Idle
    /\ fl \in [pc : {"call"}, nested_list : NestedLists, result : {<<>>}]
    /\ cl = Idle

call_flatten_list ==
    /\ fl.pc = "call"
    /\ fl' = [fl EXCEPT !.pc = "done", !.result = flatten_list(fl.nested_list)]

NextFlatten ==
    call_flatten_list /\ UNCHANGED <<fs, cache, last, returned, failed, rt, cl>>

SpecFlatten == InitFlatten /\ [][NextFlatten]_vars

\* The places of the leaves of a nested list: the indices that lead to each.
RECURSIVE LeafPlaces(_)
LeafPlaces(l) ==
    UNION {IF l[i].leaf THEN {<<i>>}
           ELSE {<<i>> \o q : q \in LeafPlaces(l[i].kids)} : i \in DOMAIN l}

RECURSIVE LeafAt(_, _)
LeafAt(l, place) ==
    IF Len(place) = 1 THEN l[place[1]]
    ELSE LeafAt(l[place[1]].kids, Tail(place))

\* p comes before q reading the nested list from left to right.
Before(p, q) ==
    \E k \in DOMAIN p \cap DOMAIN q :
        /\ p[k] < q[k]
        /\ \A j \in 1..(k - 1) : p[j] = q[j]

\* C8: the result holds the leaves of the nested list, each once, in their
\* left-to-right depth-first order, and nothing else; the example of the
\* specification gives 1 to 6.
C8_FlattenDepthFirst ==
    fl.pc = "done" =>
        LET places == LeafPlaces(fl.nested_list)
        IN  /\ Len(fl.result) = Cardinality(places)
            /\ \A p \in places :
                   fl.result[1 + Cardinality({q \in places : Before(q, p)})]
                       = LeafAt(fl.nested_list, p)
            /\ \A i \in DOMAIN fl.result : fl.result[i].leaf
            /\ fl.nested_list = Example
                   => fl.result = [i \in 1..6 |-> Leaf(i)]

C8_Witness ==
    /\ fl.pc = "done"
    /\ fl.nested_list = Example
    /\ fl.result = <<Leaf(1), Leaf(2), Leaf(3), Leaf(4), Leaf(5), Leaf(6)>>

-----------------------------------------------------------------------------
(* clone_repository (src/src/utils.py) *)

Urls == {"good1", "good2", "unreachable"}

RepoPaths == {"d1", "d2", "d3"}

\* git.Repo.clone_from(url, repo_path, depth=1): the git command fails, and
\* GitCommandError is raised, if the remote cannot be reached or the
\* destination holds something already.
clone_from(url, repo_path, disk, online) ==
    IF ~online \/ url = "unreachable" \/ disk[repo_path] # ""
    THEN "GitCommandError"
    ELSE ""

\* except git.exc.GitCommandError as e: raise (f"Error cloning ...: {e}")
\* A str is no exception: the raise statement itself raises TypeError.
raise_str(e) ==
    Err("TypeError", "exceptions must derive from BaseException")

ClCall(url, repo_path, client, err) ==
    [url |-> url, repo_path |-> repo_path, client |-> client, err |-> err]

InitClone ==
    /\ FactoryIdle
    /\ rt = Idle
    /\ fl = Idle
    /\ cl = [disk |-> [d \in RepoPaths |-> ""],
             call |-> ClCall("", "", "", NoErr)]

clone_repository(url, repo_path, online) ==
    LET client == clone_from(url, repo_path, cl.disk, online)
    IN  cl' = [cl EXCEPT
                  !.disk = IF client = "" THEN [@ EXCEPT ![repo_path] = url] ELSE @,
                  !.call = ClCall(url, repo_path, client,
                               IF client = "" THEN NoErr
                               ELSE raise_str(Err(client, "git clone failed")))]

NextClone ==
    \E url \in Urls, repo_path \in RepoPaths, online \in BOOLEAN :
        /\ clone_repository(url, repo_path, online)
        /\ UNCHANGED <<fs, cache, last, returned, failed, rt, fl>>

SpecClone == InitClone /\ [][NextClone]_vars

\* C9: when the version-control client fails, the error that reaches the
\* caller is the client's error.
C9_ClientErrorSurfaces ==
    cl.call.client # "" => cl.call.err.kind = cl.call.client

====
